---- MODULE Spec2Model ----
(***************************************************************************)
(* Model of table_bert/input_formatter.py: VanillaTableBertInputFormatter. *)
(*   get_cell_input / get_input    : linearise context + table into a      *)
(*                                   token sequence with per-column spans  *)
(*   create_pretraining_instance   : build the candidate pools             *)
(*   create_masked_lm_predictions  : choose and substitute masked tokens   *)
(* Token indices are Python indices (0-based); a Python list is a TLA+     *)
(* sequence whose element i is seq[i + 1].  Probabilities are rationals    *)
(* num / ProbDen.  Python exceptions are the value of the variable exc.    *)
(***************************************************************************)
EXTENDS Integers, Sequences, FiniteSets, TLC

\* ---------------------------------------------------------------- bounds
\* the value of MAX_BERT_INPUT_LENGTH
MaxInputLen == 14
\* the longest context
MaxContextLen == 2
\* the longest header
MaxColumns == 2
\* the value of config.max_cell_len
MaxCellLen == 2
\* the denominator of the masking probabilities
ProbDen == 4
\* the largest config.max_predictions_per_seq
MaxPredictions == 5

\* ------------------------------------------------------- generic helpers
Min(a, b) == IF a < b THEN a ELSE b

Max(a, b) == IF a > b THEN a ELSE b

\* Python range(s, e) as a list
Range(s, e) == [i \in 1..Max(0, e - s) |-> s + i - 1]

\* Python seq[s:e] for 0 <= s <= e
Slice(seq, s, e) == SubSeq(seq, s + 1, Min(e, Len(seq)))

\* Python seq[i]
At(seq, i) == seq[i + 1]

ToSet(seq) == {seq[i] : i \in 1..Len(seq)}

RECURSIVE Flatten(_)
\* [i for l in lists for i in l]
Flatten(lists) ==
    IF lists = <<>> THEN <<>> ELSE Head(lists) \o Flatten(Tail(lists))

RECURSIVE SumLen(_)
\* sum(len(l) for l in lists)
SumLen(lists) ==
    IF lists = <<>> THEN 0 ELSE Len(Head(lists)) + SumLen(Tail(lists))

RECURSIVE SortedSeq(_)
\* sorted(s) for a set of integers
SortedSeq(S) ==
    IF S = {} THEN <<>>
    ELSE LET m == CHOOSE x \in S : \A y \in S : x <= y
         IN  <<m>> \o SortedSeq(S \ {m})

RECURSIVE InsertSorted(_, _)
InsertSorted(x, seq) ==
    IF seq = <<>> THEN <<x>>
    ELSE IF x <= Head(seq) THEN <<x>> \o seq
    ELSE <<Head(seq)>> \o InsertSorted(x, Tail(seq))

RECURSIVE SortList(_)
\* sorted(list), duplicates kept
SortList(seq) ==
    IF seq = <<>> THEN <<>> ELSE InsertSorted(Head(seq), SortList(Tail(seq)))

\* ------------------------------------------------------------ the inputs
MAX_BERT_INPUT_LENGTH == MaxInputLen

ColumnDelimiter == "[SEP]"

\* Column objects: name, type, name_tokens and the per-instance sampled value
Columns ==
    { [name |-> "a", name_tokens |-> <<"a">>, type |-> "text",
       sample_value_tokens |-> <<"v">>],
      [name |-> "b", name_tokens |-> <<"b", "##b", "##c", "##d", "##e">>, type |-> "real",
       sample_value_tokens |-> <<"1", "2", "3">>],
      [name |-> "d", name_tokens |-> <<"d">>, type |-> "real",
       sample_value_tokens |-> <<"7">>],
      [name |-> "", name_tokens |-> <<>>, type |-> "text",
       sample_value_tokens |-> <<"v">>] }

Headers == UNION {[1..n -> Columns] : n \in 0..MaxColumns}

ContextToken(i) == IF i % 2 = 1 THEN "how" ELSE "many"

Contexts == {[i \in 1..n |-> ContextToken(i)] : n \in 0..MaxContextLen}

CellInputTemplates ==
    { <<"column", "|", "type", "|", "value">>,
      <<"value", "type", "column">>,
      <<"column", "value">> }

ColumnProbs == {1, 3}

ContextProbs == {1, 3}

PredictionBudgets == {1, 2, MaxPredictions}

Configs ==
    [cell_input_template : CellInputTemplates,
     context_first : BOOLEAN,
     max_cell_len : {MaxCellLen},
     column_delimiter : {ColumnDelimiter},
     table_mask_strategy : {"column_token", "column"},
     masked_column_prob : ColumnProbs,
     masked_context_prob : ContextProbs,
     max_predictions_per_seq : PredictionBudgets]

\* ------------------------------------------------------- get_cell_input
RECURSIVE CellLoop(_, _, _, _, _, _)
\* the for loop over cell_input_template, from template slot i on
CellLoop(template, i, column, cell_value, token_offset, acc) ==
    IF i > Len(template) THEN acc
    ELSE
      LET token == template[i]
          input == acc.input
          span_map == acc.span_map
          start == Len(input) + token_offset
          next ==
            IF token = "column" THEN
              [input |-> input \o column.name_tokens,
               span_map |-> ("column_name" :> <<start, start + Len(column.name_tokens)>>)
                              @@ span_map]
            ELSE IF token = "value" THEN
              [input |-> input \o cell_value,
               span_map |-> ("value" :> <<start, start + Len(cell_value)>>) @@ span_map]
            ELSE IF token = "type" THEN
              [input |-> Append(input, column.type),
               span_map |-> ("type" :> <<start, start + 1>>) @@ span_map]
            ELSE
              [input |-> Append(input, token),
               span_map |->
                 ("other_tokens" :>
                    Append(IF "other_tokens" \in DOMAIN span_map
                           THEN span_map["other_tokens"] ELSE <<>>, start))
                   @@ span_map]
      IN  CellLoop(template, i + 1, column, cell_value, token_offset, next)

\* span_map['whole_span'] = ...; return input, span_map
CellResult(token_offset, looped) ==
    [input |-> looped.input,
     span_map |->
       ("whole_span" :> <<token_offset, token_offset + Len(looped.input)>>)
         @@ looped.span_map]

get_cell_input(template, column, cell_value, token_offset) ==
    CellResult(token_offset,
               CellLoop(template, 1, column, cell_value, token_offset,
                        [input |-> <<>>,
                         span_map |-> ("first_token" :> <<token_offset, token_offset + 1>>)]))

\* ------------------------------------------------------------ get_input
\* column_token_span_maps[name] = span_map on an insertion-ordered dict,
\* kept as a list of [key, value] entries
DictSet(dict, key, value) ==
    IF \E i \in 1..Len(dict) : dict[i].key = key
    THEN [i \in 1..Len(dict) |->
            IF dict[i].key = key THEN [key |-> key, value |-> value] ELSE dict[i]]
    ELSE Append(dict, [key |-> key, value |-> value])

\* max_table_token_length without the three delimiter tokens
max_table_token_length_NoDelimiters(context) == MAX_BERT_INPUT_LENGTH - Len(context)

max_table_token_length(context) == MAX_BERT_INPUT_LENGTH - Len(context) - 2 - 1

\* table_tokens_start_idx forgetting the [SEP] after the context
table_tokens_start_idx_NoSep(cfg, context) ==
    IF cfg.context_first THEN Len(context) + 1 ELSE 1

table_tokens_start_idx(cfg, context) ==
    IF cfg.context_first THEN Len(context) + 2 ELSE 1

RECURSIVE HeaderLoop(_, _, _, _, _)
RECURSIVE HeaderStep(_, _, _, _, _, _)
\* one iteration of the loop, from the call of get_cell_input on: cell is its result
HeaderStep(cfg, context, header, col_id, acc, cell) ==
    LET column_input_tokens == Append(cell.input, cfg.column_delimiter)
    IN  IF Len(acc.row_input_tokens) + Len(column_input_tokens)
             > max_table_token_length(context)
        THEN acc
        ELSE HeaderLoop(cfg, context, header, col_id + 1,
               [row_input_tokens |-> acc.row_input_tokens \o column_input_tokens,
                column_start_idx |-> acc.column_start_idx + Len(column_input_tokens),
                column_token_span_maps |->
                  DictSet(acc.column_token_span_maps, header[col_id].name, cell.span_map)])

\* the for loop over table.header, from column col_id (1-based) on, with break
HeaderLoop(cfg, context, header, col_id, acc) ==
    IF col_id > Len(header) THEN acc
    ELSE HeaderStep(cfg, context, header, col_id, acc,
                    get_cell_input(cfg.cell_input_template, header[col_id],
                                   Slice(header[col_id].sample_value_tokens, 0, cfg.max_cell_len),
                                   acc.column_start_idx))

NoInstance ==
    [tokens |-> <<>>, segment_ids |-> <<>>, column_spans |-> <<>>,
     context_length |-> 0, context_token_indices |-> <<>>]

\* the sequence, segment ids and context indices around the row tokens
InstanceOf(cfg, context, row, column_token_span_maps) ==
    LET n == Len(context)
        r == Len(row)
    IN  IF cfg.context_first
        THEN [tokens |-> <<"[CLS]">> \o context \o <<"[SEP]">> \o row \o <<"[SEP]">>,
              segment_ids |-> [i \in 1..(n + 2) |-> 0] \o [i \in 1..(r + 1) |-> 1],
              column_spans |-> column_token_span_maps,
              context_length |-> 1 + n,
              context_token_indices |-> Range(0, 1 + n)]
        ELSE [tokens |-> <<"[CLS]">> \o row \o <<"[SEP]">> \o context \o <<"[SEP]">>,
              segment_ids |-> [i \in 1..(r + 2) |-> 0] \o [i \in 1..(n + 1) |-> 1],
              column_spans |-> column_token_span_maps,
              context_length |-> 1 + n,
              context_token_indices |-> Range(r + 1, r + 1 + 1 + n + 1)]

\* get_input after the loop: row_input_tokens[-1] raises on an empty row
AfterLoop(cfg, context, looped) ==
    LET row0 == looped.row_input_tokens
    IN  IF row0 = <<>>
        THEN [exc |-> "IndexError", instance |-> NoInstance]
        ELSE [exc |-> "none",
              instance |->
                InstanceOf(cfg, context,
                           IF row0[Len(row0)] = cfg.column_delimiter
                           THEN SubSeq(row0, 1, Len(row0) - 1) ELSE row0,
                           looped.column_token_span_maps)]

get_input(cfg, context, header) ==
    AfterLoop(cfg, context,
              HeaderLoop(cfg, context, header, 1,
                         [row_input_tokens |-> <<>>,
                          column_start_idx |-> table_tokens_start_idx(cfg, context),
                          column_token_span_maps |-> <<>>]))

\* ------------------------------------------ create_pretraining_instance
\* ColumnCandidates reading span['value'] where the code reads span['type']
ColumnCandidatesMaskingValue(span, rare) ==
    IF "column_name" \notin DOMAIN span THEN [exc |-> "KeyError", line |-> 147, value |-> <<>>]
    ELSE IF "value" \notin DOMAIN span THEN [exc |-> "KeyError", line |-> 148, value |-> <<>>]
    ELSE IF rare /\ "other_tokens" \notin DOMAIN span
         THEN [exc |-> "KeyError", line |-> 150, value |-> <<>>]
    ELSE [exc |-> "none", line |-> 0,
          value |-> Range(span["column_name"][1], span["column_name"][2])
                      \o Range(span["value"][1], span["value"][2])
                      \o (IF rare THEN span["other_tokens"] ELSE <<>>)]

\* one entry of the column_candidate_indices comprehension; rare is the
\* outcome of random() < 0.01 for this column
ColumnCandidates(span, rare) ==
    IF "column_name" \notin DOMAIN span THEN [exc |-> "KeyError", line |-> 147, value |-> <<>>]
    ELSE IF "type" \notin DOMAIN span THEN [exc |-> "KeyError", line |-> 148, value |-> <<>>]
    ELSE IF rare /\ "other_tokens" \notin DOMAIN span
         THEN [exc |-> "KeyError", line |-> 150, value |-> <<>>]
    ELSE [exc |-> "none", line |-> 0,
          value |-> Range(span["column_name"][1], span["column_name"][2])
                      \o Range(span["type"][1], span["type"][2])
                      \o (IF rare THEN span["other_tokens"] ELSE <<>>)]

\* column_candidate_indices; rares[i] is the draw for the i-th dict entry
column_candidate_indices_of(column_spans, rares) ==
    LET each == [i \in 1..Len(column_spans) |->
                   ColumnCandidates(column_spans[i].value, rares[i])]
        bad == {i \in 1..Len(each) : each[i].exc # "none"}
    IN  IF bad # {}
        THEN LET i == CHOOSE x \in bad : \A y \in bad : x <= y
             IN  [exc |-> each[i].exc, line |-> each[i].line, value |-> <<>>]
        ELSE [exc |-> "none", line |-> 0,
              value |-> [i \in 1..Len(each) |-> each[i].value]]

context_candidate_indices_of(cfg, inst) ==
    LET idx == inst.context_token_indices
    IN  IF idx = <<>> THEN <<>>
        ELSE IF cfg.context_first THEN Tail(idx)
        ELSE SubSeq(idx, 1, Len(idx) - 1)

\* ----------------------------------------- create_masked_lm_predictions
KSubsets(S, k) == {T \in SUBSET S : Cardinality(T) = k}

\* the lists obtained by putting the elements of S in some order
Perms(S) ==
    {p \in [1..Cardinality(S) -> S] : \A i, j \in 1..Cardinality(S) : i # j => p[i] # p[j]}

\* sorted(sample(population, k)) for 0 <= k <= len(population): every outcome
SortedSamples(population, k) ==
    {SortList([i \in 1..k |-> population[SortedSeq(P)[i]]]) :
        P \in KSubsets(1..Len(population), k)}

\* int(n * prob), prob = num / ProbDen
FloorProb(n, num) == (n * num) \div ProbDen

\* ceil(n * prob), prob = num / ProbDen
CeilProb(n, num) == (n * num + ProbDen - 1) \div ProbDen

\* column_token: the number of column tokens to mask
ColumnTokenCount(cfg, pool_len) ==
    Min(cfg.max_predictions_per_seq, Max(2, FloorProb(pool_len, cfg.masked_column_prob)))

\* ColumnCount rounding down where the code rounds up
ColumnCountFloor(cfg, num_maskable_columns) ==
    Max(1, FloorProb(num_maskable_columns, cfg.masked_column_prob))

\* column: the number of columns to mask
ColumnCount(cfg, num_maskable_columns) ==
    Max(1, CeilProb(num_maskable_columns, cfg.masked_column_prob))

NoSelection ==
    [exc |-> "none", line |-> 0, columns_to_mask |-> <<>>,
     masked_column_token_indices |-> <<>>, num_column_tokens_to_mask |-> 0,
     info |-> <<>>]

\* strategy column_token: flatten, shuffle, sample, sort
ColumnTokenSelections(cfg, column_indices) ==
    LET pool == Flatten(column_indices)
        k == ColumnTokenCount(cfg, Len(pool))
    IN  IF k > Len(pool) \/ k < 0
        THEN {[NoSelection EXCEPT !.exc = "ValueError", !.line = 197]}
        ELSE {[NoSelection EXCEPT !.masked_column_token_indices = chosen,
                                  !.num_column_tokens_to_mask = k] :
                 chosen \in SortedSamples(pool, k)}

\* strategy column: sample whole columns, shuffle them, take all their indices
ColumnSelections(cfg, column_indices) ==
    LET n == Len(column_indices)
        k == ColumnCount(cfg, n)
    IN  IF k > n
        THEN {[NoSelection EXCEPT !.exc = "ValueError", !.line = 201]}
        ELSE UNION {
               {[NoSelection EXCEPT
                   !.columns_to_mask = cols,
                   !.num_column_tokens_to_mask =
                       SumLen([i \in 1..k |-> column_indices[cols[i] + 1]]),
                   !.masked_column_token_indices =
                       Flatten([i \in 1..k |-> column_indices[cols[i] + 1]]),
                   !.info = ("num_masked_columns" :> k)] :
                  cols \in Perms(S)} :
               S \in KSubsets(0..(n - 1), k)}

TableSelections(cfg, column_indices) ==
    IF cfg.table_mask_strategy = "column_token"
    THEN ColumnTokenSelections(cfg, column_indices)
    ELSE ColumnSelections(cfg, column_indices)

max_context_token_to_mask(cfg, num_column_tokens_to_mask) ==
    cfg.max_predictions_per_seq - num_column_tokens_to_mask

ContextCount(cfg, num_column_tokens_to_mask, context_len) ==
    Min(max_context_token_to_mask(cfg, num_column_tokens_to_mask),
        Max(1, FloorProb(context_len, cfg.masked_context_prob)))

\* the masked indices when no context token is masked
ColumnOnlyIndices(masked_column_token_indices) == masked_column_token_indices

\* the context selection and the merge into masked_indices
ContextSelections(cfg, context_indices, sel) ==
    LET k == ContextCount(cfg, sel.num_column_tokens_to_mask, Len(context_indices))
    IN  IF k > 0
        THEN IF k > Len(context_indices)
             THEN {[exc |-> "ValueError", line |-> 220, num_context_tokens_to_mask |-> k,
                    masked_context_token_indices |-> <<>>, masked_indices |-> <<>>]}
             ELSE {[exc |-> "none", line |-> 0, num_context_tokens_to_mask |-> k,
                    masked_context_token_indices |-> chosen,
                    masked_indices |-> SortList(chosen \o sel.masked_column_token_indices)] :
                     chosen \in SortedSamples(context_indices, k)}
        ELSE {[exc |-> "none", line |-> 0, num_context_tokens_to_mask |-> k,
               masked_context_token_indices |-> <<>>,
               masked_indices |-> ColumnOnlyIndices(sel.masked_column_token_indices)]}

\* self.vocab_list
vocab_list == <<"the">>

\* the draws of random() and choice() in the substitution loop: the j-th
\* masked index gets the (j + shift)-th outcome of the cycle mask, keep, random
RandomStreams == [shift : 0..2, word : ToSet(vocab_list)]

masked_token_of(stream, j, original) ==
    LET r == (j + stream.shift) % 3
    IN  IF r = 0 THEN "[MASK]" ELSE IF r = 1 THEN original ELSE stream.word

RECURSIVE MaskLoop(_, _, _, _)
\* for index in masked_indices, from the j-th (1-based) on
MaskLoop(stream, masked_indices, j, acc) ==
    IF j > Len(masked_indices) THEN acc
    ELSE LET index == masked_indices[j]
         IN  MaskLoop(stream, masked_indices, j + 1,
               [masked_token_labels |-> Append(acc.masked_token_labels, At(acc.tokens, index)),
                tokens |-> [acc.tokens EXCEPT
                              ![index + 1] = masked_token_of(stream, j, At(acc.tokens, index))]])

NoMasked ==
    [exc |-> "none", line |-> 0, tokens |-> <<>>, masked_lm_positions |-> <<>>,
     masked_lm_labels |-> <<>>, info |-> <<>>, columns_to_mask |-> <<>>,
     masked_column_token_indices |-> <<>>, masked_context_token_indices |-> <<>>]

\* every outcome of create_masked_lm_predictions(tokens, context_indices, column_indices)
create_masked_lm_predictions(cfg, tokens, context_indices, column_indices) ==
    UNION {
      IF sel.exc # "none"
      THEN {[NoMasked EXCEPT !.exc = sel.exc, !.line = sel.line]}
      ELSE UNION {
        IF ctx.exc # "none"
        THEN {[NoMasked EXCEPT !.exc = ctx.exc, !.line = ctx.line,
                 !.columns_to_mask = sel.columns_to_mask,
                 !.masked_column_token_indices = sel.masked_column_token_indices]}
        ELSE {LET looped == MaskLoop(stream, ctx.masked_indices, 1,
                                     [masked_token_labels |-> <<>>, tokens |-> tokens])
              IN  [exc |-> "none", line |-> 0,
                   tokens |-> looped.tokens,
                   masked_lm_positions |-> ctx.masked_indices,
                   masked_lm_labels |-> looped.masked_token_labels,
                   info |-> ("num_column_tokens_to_mask" :> sel.num_column_tokens_to_mask)
                            @@ ("num_context_tokens_to_mask" :> ctx.num_context_tokens_to_mask)
                            @@ sel.info
                            @@ ("num_maskable_column_tokens" :> SumLen(column_indices)),
                   columns_to_mask |-> sel.columns_to_mask,
                   masked_column_token_indices |-> sel.masked_column_token_indices,
                   masked_context_token_indices |-> ctx.masked_context_token_indices] :
                stream \in RandomStreams}
        : ctx \in ContextSelections(cfg, context_indices, sel)}
      : sel \in TableSelections(cfg, column_indices)}

\* ------------------------------------------------------------- the state
\* create_masked_lm_predictions overwrites the list input_instance['tokens']
\* in place; instance keeps the sequence as get_input returned it and
\* masked.tokens is the sequence after the overwrites.
VARIABLES
    config,     \* self.config
    pc,         \* "idle" | "returned" | "raised"
    call,       \* the method called: "none" | "get_input" | "create_pretraining_instance"
    exc,        \* the exception raised, "none" if none
    exc_line,   \* the source line that raised it, 0 if none
    context,    \* argument: the context tokens
    header,     \* argument: table.header
    instance,   \* the result of get_input (input_instance), as get_input returned it
    rare_draws, \* the outcomes of random() < 0.01, one per entry of column_spans
    column_candidate_indices,
    context_candidate_indices,
    masked,     \* the outcome of create_masked_lm_predictions, with its locals
    pretraining_instance  \* the result of create_pretraining_instance

vars == <<config, pc, call, exc, exc_line, context, header, instance, rare_draws,
          column_candidate_indices, context_candidate_indices, masked,
          pretraining_instance>>

\* the instance returned by create_pretraining_instance (token ids left out)
NoPretrainingInstance ==
    [tokens |-> <<>>, segment_a_length |-> 0, masked_lm_positions |-> <<>>,
     masked_lm_labels |-> <<>>, info |-> <<>>]

PretrainingInstanceOf(input_instance, h, out) ==
    [tokens |-> out.tokens,
     segment_a_length |->
       Cardinality({i \in 1..Len(input_instance.segment_ids) :
                      input_instance.segment_ids[i] = 0}),
     masked_lm_positions |-> out.masked_lm_positions,
     masked_lm_labels |-> out.masked_lm_labels,
     info |-> ("num_columns" :> Len(h)) @@ out.info]

Init ==
    /\ config \in Configs
    /\ pc = "idle"
    /\ call = "none"
    /\ exc = "none"
    /\ exc_line = 0
    /\ context = <<>>
    /\ header = <<>>
    /\ instance = NoInstance
    /\ rare_draws = <<>>
    /\ column_candidate_indices = <<>>
    /\ context_candidate_indices = <<>>
    /\ masked = NoMasked
    /\ pretraining_instance = NoPretrainingInstance

\* get_input(c, table with header h) ends with the result got
GetInputEnds(c, h, got) ==
    /\ context' = c
    /\ header' = h
    /\ call' = "get_input"
    /\ exc' = got.exc
    /\ exc_line' = IF got.exc = "none" THEN 0 ELSE 89
    /\ pc' = IF got.exc = "none" THEN "returned" ELSE "raised"
    /\ instance' = got.instance
    /\ UNCHANGED <<config, rare_draws, column_candidate_indices,
                   context_candidate_indices, masked, pretraining_instance>>

\* a call of get_input(context, table)
GetInput ==
    /\ pc = "idle"
    /\ \E c \in Contexts, h \in Headers : GetInputEnds(c, h, get_input(config, c, h))

\* create_pretraining_instance from the call of create_masked_lm_predictions on
MaskCandidates(input_instance, h, context_indices, column_indices) ==
    /\ context_candidate_indices' = context_indices
    /\ \E out \in create_masked_lm_predictions(
                    config, input_instance.tokens, context_indices, column_indices) :
         /\ masked' = out
         /\ exc' = out.exc
         /\ exc_line' = out.line
         /\ pc' = IF out.exc = "none" THEN "returned" ELSE "raised"
         /\ pretraining_instance' =
              IF out.exc = "none" THEN PretrainingInstanceOf(input_instance, h, out)
              ELSE pretraining_instance

\* create_pretraining_instance from column_candidate_indices (cand) on
BuildCandidates(input_instance, h, rares, cand) ==
    /\ rare_draws' = rares
    /\ column_candidate_indices' = cand.value
    /\ IF cand.exc # "none"
       THEN /\ exc' = cand.exc
            /\ exc_line' = cand.line
            /\ pc' = "raised"
            /\ UNCHANGED <<context_candidate_indices, masked, pretraining_instance>>
       ELSE MaskCandidates(input_instance, h,
                           context_candidate_indices_of(config, input_instance),
                           cand.value)

\* create_pretraining_instance(c, h) after get_input, whose result is got
AfterGetInput(c, h, got) ==
    /\ context' = c
    /\ header' = h
    /\ call' = "create_pretraining_instance"
    /\ instance' = got.instance
    /\ UNCHANGED config
    /\ IF got.exc # "none"
       THEN /\ exc' = got.exc
            /\ exc_line' = 89
            /\ pc' = "raised"
            /\ UNCHANGED <<rare_draws, column_candidate_indices,
                           context_candidate_indices, masked, pretraining_instance>>
       ELSE \E rares \in [1..Len(got.instance.column_spans) -> BOOLEAN] :
              BuildCandidates(got.instance, h, rares,
                              column_candidate_indices_of(got.instance.column_spans, rares))

\* a call of create_pretraining_instance(context, header)
CreatePretrainingInstance ==
    /\ pc = "idle"
    /\ \E c \in Contexts, h \in Headers : AfterGetInput(c, h, get_input(config, c, h))

Next == GetInput \/ CreatePretrainingInstance

Spec == Init /\ [][Next]_vars

\* =============================================================== properties
\* the stages a call has completed
IsCreate == call = "create_pretraining_instance"

InputBuilt == call # "none" /\ exc_line # 89

CandidatesBuilt == IsCreate /\ InputBuilt /\ exc_line \notin {147, 148, 150}

ColumnsSelected == CandidatesBuilt /\ exc_line \notin {197, 201}

MaskedReturned == IsCreate /\ pc = "returned"

\* what one column contributes to the row, read off the template slot by slot
SlotTokens(slot, column) ==
    IF slot = "column" THEN column.name_tokens
    ELSE IF slot = "value"
         THEN [i \in 1..Min(Len(column.sample_value_tokens), config.max_cell_len) |->
                 column.sample_value_tokens[i]]
    ELSE IF slot = "type" THEN <<column.type>>
    ELSE <<slot>>

EmittedColumn(column) ==
    Flatten([i \in 1..Len(config.cell_input_template) |->
               SlotTokens(config.cell_input_template[i], column)])
      \o <<config.column_delimiter>>

EmittedPrefix(k) == Flatten([i \in 1..k |-> EmittedColumn(header[i])])

TableBudget == MAX_BERT_INPUT_LENGTH - Len(context) - 3

Fits(k) == Len(EmittedPrefix(k)) <= TableBudget

\* the number of columns of the header that fit: the longest fitting prefix
IncludedCount ==
    CHOOSE k \in 0..Len(header) :
        /\ \A j \in 1..k : Fits(j)
        /\ (k = Len(header) \/ ~Fits(k + 1))

Assembled(row) ==
    IF config.context_first
    THEN <<"[CLS]">> \o context \o <<"[SEP]">> \o row \o <<"[SEP]">>
    ELSE <<"[CLS]">> \o row \o <<"[SEP]">> \o context \o <<"[SEP]">>

StrictlyAscending(seq) == \A i, j \in 1..Len(seq) : i < j => seq[i] < seq[j]

InInterval(idx, span) == span[1] <= idx /\ idx < span[2]

\* C1: every returning call of create_masked_lm_predictions keeps the length
\* of the token sequence, returns as many labels as positions, and returns
\* the positions strictly ascending (hence without duplicates).
C1_MaskedOutputShape ==
    MaskedReturned =>
        /\ Len(masked.tokens) = Len(instance.tokens)
        /\ Len(masked.masked_lm_positions) = Len(masked.masked_lm_labels)
        /\ StrictlyAscending(masked.masked_lm_positions)

\* C2: when not even the first column fits the table-token budget, get_input
\* returns normally with no column: column_spans is empty and the sequence
\* is [CLS] context [SEP] [SEP] (context first) or [CLS] [SEP] context [SEP].
C2_ZeroColumnsReturns ==
    (call = "get_input" /\ header # <<>> /\ ~Fits(1)) =>
        /\ pc = "returned"
        /\ exc = "none"
        /\ instance.column_spans = <<>>
        /\ instance.tokens = Assembled(<<>>)

\* C9: whenever get_input returns, the table part of the sequence is exactly
\* the emitted tokens of the longest prefix of the header that fits the
\* budget, each column in full and in header order, without the trailing
\* delimiter, and the sequence is no longer than MAX_BERT_INPUT_LENGTH.
C9_WholeColumnPrefix ==
    InputBuilt =>
        LET k == IncludedCount
            row == EmittedPrefix(k)
        IN  /\ k >= 1
            /\ instance.tokens = Assembled(SubSeq(row, 1, Len(row) - 1))
            /\ Len(instance.tokens) <= MAX_BERT_INPUT_LENGTH

\* C9 witness: a header of which only a proper, non-empty prefix was included
C9_Witness_Truncated ==
    /\ call = "get_input" /\ pc = "returned"
    /\ IncludedCount >= 1 /\ IncludedCount < Len(header)
    /\ context # <<>>

SpanInBounds(span_map, key) ==
    IF key = "other_tokens"
    THEN \A i \in 1..Len(span_map[key]) :
            0 <= span_map[key][i] /\ span_map[key][i] < Len(instance.tokens)
    ELSE 0 <= span_map[key][1] /\ span_map[key][1] <= span_map[key][2]
         /\ span_map[key][2] <= Len(instance.tokens)

\* C5: with 'column' in the template, for every included column the slice of
\* the final sequence at the column_name span recorded under the column's
\* name is the column's name_tokens, and every recorded span lies within
\* the sequence.
C5_ColumnNameRoundTrip ==
    (InputBuilt /\ "column" \in ToSet(config.cell_input_template)) =>
        /\ \A i \in 1..IncludedCount :
             \E e \in 1..Len(instance.column_spans) :
                LET entry == instance.column_spans[e]
                IN  /\ entry.key = header[i].name
                    /\ "column_name" \in DOMAIN entry.value
                    /\ Slice(instance.tokens, entry.value["column_name"][1],
                             entry.value["column_name"][2]) = header[i].name_tokens
        /\ \A e \in 1..Len(instance.column_spans) :
             \A key \in DOMAIN instance.column_spans[e].value :
                SpanInBounds(instance.column_spans[e].value, key)

\* C5 witness: two differently named columns included after a non-empty context
C5_Witness_TwoColumns ==
    /\ call = "get_input" /\ pc = "returned"
    /\ "column" \in ToSet(config.cell_input_template)
    /\ config.context_first /\ context # <<>>
    /\ IncludedCount = 2 /\ Len(instance.column_spans) = 2
    /\ \E i \in 1..2 : Len(header[i].name_tokens) >= 1

NoRareDraw == \A i \in 1..Len(rare_draws) : ~rare_draws[i]

MaskedSet == ToSet(masked.masked_lm_positions)

\* the indices inside the span recorded under key, none if the key is absent
SpanIndices(span_map, key) ==
    IF key \in DOMAIN span_map
    THEN {idx \in 0..Len(instance.tokens) : InInterval(idx, span_map[key])}
    ELSE {}

\* C3 as stated: with no rare-literal draw, no index of a recorded 'value'
\* span and no index of a recorded 'first_token' span is masked.
C3_NoValueOrFirstTokenMasked ==
    (MaskedReturned /\ NoRareDraw) =>
        \A e \in 1..Len(instance.column_spans) :
            LET span_map == instance.column_spans[e].value
            IN  /\ SpanIndices(span_map, "value") \cap MaskedSet = {}
                /\ SpanIndices(span_map, "first_token") \cap MaskedSet = {}

\* C3 amended: with no rare-literal draw, no index of a recorded 'value' span
\* is masked, and the 'first_token' index is masked only when it is also an
\* index of the column's 'column_name' or 'type' span.
C3_NoValueMasked ==
    (MaskedReturned /\ NoRareDraw) =>
        \A e \in 1..Len(instance.column_spans) :
            LET span_map == instance.column_spans[e].value
            IN  /\ SpanIndices(span_map, "value") \cap MaskedSet = {}
                /\ (SpanIndices(span_map, "first_token") \cap MaskedSet)
                     \subseteq (SpanIndices(span_map, "column_name")
                                  \cup SpanIndices(span_map, "type"))

\* C3 witness: no rare draw, a column with a non-empty value span, and both a
\* column index and a context index masked
C3_Witness_ValueUntouched ==
    /\ MaskedReturned /\ NoRareDraw
    /\ \E e \in 1..Len(instance.column_spans) :
          SpanIndices(instance.column_spans[e].value, "value") # {}
    /\ masked.masked_column_token_indices # <<>>
    /\ masked.masked_context_token_indices # <<>>

\* the index of the [SEP] between context and table
MiddleSepIndex ==
    IF config.context_first THEN Len(context) + 1
    ELSE Len(instance.tokens) - Len(context) - 2

\* the indices of the context tokens proper
ContextTokenIndexSet ==
    IF config.context_first THEN 1..Len(context)
    ELSE (Len(instance.tokens) - Len(context) - 1)..(Len(instance.tokens) - 2)

\* the boundary token on the side of the context away from the table
FarBoundaryIndex == IF config.context_first THEN 0 ELSE Len(instance.tokens) - 1

\* C4: in both orderings the [SEP] between context and table is no context
\* candidate and is never masked, and every context candidate is a context
\* token or the far boundary token.
C4_MiddleSepNeverCandidate ==
    CandidatesBuilt =>
        /\ MiddleSepIndex \notin ToSet(context_candidate_indices)
        /\ MiddleSepIndex \notin MaskedSet
        /\ ToSet(context_candidate_indices)
             \subseteq (ContextTokenIndexSet \cup {FarBoundaryIndex})

\* ceil(n * num / ProbDen): the least c with c * ProbDen >= n * num
LeastCeil(n, num) ==
    CHOOSE c \in 0..(n * num) : c * ProbDen >= n * num /\ (c - 1) * ProbDen < n * num

\* floor(n * num / ProbDen): the greatest f with f * ProbDen <= n * num
GreatestFloor(n, num) ==
    CHOOSE f \in 0..(n * num) : f * ProbDen <= n * num /\ (f + 1) * ProbDen > n * num

\* C6: under 'column', exactly max(1, ceil(numColumns * masked_column_prob))
\* distinct columns are selected, that number is reported as
\* num_masked_columns, every candidate index of a selected column is masked
\* and no candidate index of another column is.
C6_WholeColumnsMasked ==
    (ColumnsSelected /\ config.table_mask_strategy = "column") =>
        LET n == Len(column_candidate_indices)
            want == Max(1, LeastCeil(n, config.masked_column_prob))
            cols == masked.columns_to_mask
        IN  /\ Len(cols) = want
            /\ Cardinality(ToSet(cols)) = want
            /\ ToSet(cols) \subseteq 0..(n - 1)
            /\ pc = "returned" =>
                 /\ masked.info["num_masked_columns"] = want
                 /\ \A c \in 0..(n - 1) :
                      IF c \in ToSet(cols)
                      THEN ToSet(column_candidate_indices[c + 1]) \subseteq MaskedSet
                      ELSE ToSet(column_candidate_indices[c + 1]) \cap MaskedSet = {}

\* C6 witness: one of two candidate columns masked, with context tokens too
C6_Witness_SomeColumnsMasked ==
    /\ MaskedReturned /\ config.table_mask_strategy = "column"
    /\ Len(column_candidate_indices) = 2
    /\ Len(masked.columns_to_mask) = 1
    /\ masked.masked_context_token_indices # <<>>
    /\ \E c \in 1..2 : ToSet(column_candidate_indices[c]) \cap MaskedSet = {}

\* C7: under 'column_token', for every flattened pool, the call selects
\* exactly min(max_predictions_per_seq, max(2, floor(poolSize * prob)))
\* distinct indices of the pool and does not fail.
C7_ColumnTokenSelection ==
    (CandidatesBuilt /\ config.table_mask_strategy = "column_token") =>
        LET pool == Flatten(column_candidate_indices)
            want == Min(config.max_predictions_per_seq,
                        Max(2, GreatestFloor(Len(pool), config.masked_column_prob)))
            chosen == masked.masked_column_token_indices
        IN  /\ exc_line # 197
            /\ Len(chosen) = want
            /\ Cardinality(ToSet(chosen)) = want
            /\ ToSet(chosen) \subseteq ToSet(pool)

\* C8: with contextBudget = max(0, max_predictions_per_seq - column tokens
\* masked), the number of context positions masked is min(contextBudget,
\* max(1, floor(len(contextIndices) * masked_context_prob))), and
\* num_context_tokens_to_mask is never negative and is the number of
\* context candidates among the masked positions.
C8_ContextCount ==
    MaskedReturned =>
        LET budget == Max(0, config.max_predictions_per_seq
                               - masked.info["num_column_tokens_to_mask"])
            want == Min(budget, Max(1, GreatestFloor(Len(context_candidate_indices),
                                                     config.masked_context_prob)))
        IN  /\ Len(masked.masked_context_token_indices) = want
            /\ masked.info["num_context_tokens_to_mask"] >= 0
            /\ masked.info["num_context_tokens_to_mask"]
                 = Cardinality(ToSet(context_candidate_indices) \cap MaskedSet)

\* C10: under either strategy the number of masked positions returned never
\* exceeds max_predictions_per_seq.
C10_WithinPredictionBudget ==
    MaskedReturned => Len(masked.masked_lm_positions) <= config.max_predictions_per_seq

====
